---- MODULE Spec2Model ----
(***************************************************************************)
(* koishi-plugin-w-elo: the commands elo.register, elo.check and           *)
(* elo.update of src/index.ts, run against the koishi database.            *)
(*                                                                         *)
(* A command handler is an async function: it runs from one `await` to the *)
(* next without interruption, and other handlers and database operations   *)
(* interleave at every await.  A database operation is atomic and takes    *)
(* effect at one instant between its issue and its completion.  For an     *)
(* awaited operation that instant and the handler's continuation are one   *)
(* step (the handler does nothing in between); an operation the handler    *)
(* does not await (index.ts:131-136, 171-178) stays in flight after the    *)
(* handler has returned and takes effect in a later step of its own.       *)
(*                                                                         *)
(* The specifications share the actions:                                   *)
(*   Spec        starts from the empty database: elo.register, elo.update  *)
(*   SpecAll     adds elo.check, and also starts after a first proposal    *)
(*   SpecDuel    starts with A and B registered (a state Spec reaches, see *)
(*               DuelStart) and runs elo.update alone, with a larger budget*)
(*   SpecSelf    SpecDuel with elo.update against oneself as well          *)
(*   SpecTrio    three users, A's proposals against B and C stored         *)
(*   SpecFaulty  SpecDuel in which the operations not awaited may reject   *)
(*   SpecFair    SpecDuel in which every operation not awaited completes   *)
(***************************************************************************)
EXTENDS Integers, Sequences, FiniteSets, TLC

VARIABLES
    players,     \* table 'w-elo': uid -> row (reg = FALSE: no row)
    requests,    \* table 'w-elo-request': set of rows
    nextRid,     \* the autoInc counter of 'w-elo-request'
    calls,       \* handler invocations in progress, by slot: position and locals
    reply,       \* what the last step answered to a user (NoReply: nothing)
    commits,     \* in-flight promise chains of index.ts:131-136
    creates,     \* in-flight database.create calls of index.ts:171-178
    quota,       \* elo.update invocations that may still start
    removed,     \* history: the rows removed from 'w-elo-request'
    applied,     \* history: <<rid, uid>> whose rating a commit of rid moved by rid's delta
    reapplied,   \* history: <<rid, uid>> for which that happened a second time
    open,        \* history: <<src, dest>> proposed (handler returned) and not accepted since
    bases,       \* history: per rid, the ratings its deltas were computed from
    log,         \* what ctx.logger.error was called with: message and invocation
    aborted,     \* history: the promise chains of index.ts:131-136 that rejected
    lost         \* history: the database.create calls of index.ts:171-178 that rejected

vars == <<players, requests, nextRid, calls, reply, commits, creates, quota,
          removed, applied, reapplied, open, bases, log, aborted, lost>>

----------------------------------------------------------------------------
(* Bounds *)

\* elo.update invocations in one behaviour of SpecDuel
MaxUpdates == 3

\* elo.update invocations in one behaviour of Spec
MaxFreshUpdates == 2

\* elo.update invocations in one behaviour of SpecAll
MaxAllUpdates == 1

\* elo.update invocations in one behaviour of SpecSelf
MaxSelfUpdates == 2

\* elo.update invocations in one behaviour of SpecTrio
MaxTrioUpdates == 2

\* elo.update invocations in one behaviour of SpecFaulty
MaxFaultyUpdates == 2

\* elo.update invocations in one behaviour of SpecFair
MaxFairUpdates == 2

\* users that send commands
Uid == {"A", "B"}

\* handler invocations that can be in progress at once
Slot == {1, 2}

\* an absent [user:user] argument of elo.check
NoUser == "-"

\* the <name:string> arguments tried, as sequences of characters
RawName == { <<"a">>, <<" ", "b">>, <<" ">> }

----------------------------------------------------------------------------
(* Configuration and enums *)

initialElo == 400

k == 32

Lose == 0

Win == 1

----------------------------------------------------------------------------
(* Pure functions *)

Abs(x) == IF x < 0 THEN -x ELSE x

\* String.prototype.trim on a sequence of characters
RECURSIVE TrimLeft(_)
TrimLeft(s) == IF s # <<>> /\ Head(s) = " " THEN TrimLeft(Tail(s)) ELSE s

RECURSIVE TrimRight(_)
TrimRight(s) ==
    IF s # <<>> /\ s[Len(s)] = " " THEN TrimRight(SubSeq(s, 1, Len(s) - 1)) ELSE s

Trim(s) == TrimRight(TrimLeft(s))

\* 10 ** (d / 400) for d = 0, 1, 2, ..., to four decimals, times 10000
Pow10Tab ==
    << 10000, 10058, 10116, 10174, 10233, 10292, 10351, 10411, 10471, 10532,
       10593, 10654, 10715, 10777, 10839, 10902, 10965, 11028, 11092, 11156,
       11220, 11285, 11350, 11416, 11482, 11548, 11614, 11682, 11749, 11817,
       11885, 11954, 12023, 12092, 12162, 12232, 12303, 12374, 12445, 12517,
       12589, 12662, 12735, 12809, 12882, 12957, 13032, 13107, 13183, 13259,
       13335, 13412, 13490, 13568, 13646, 13725, 13804, 13884, 13964, 14044,
       14125, 14207, 14289, 14371, 14454, 14538, 14622, 14706, 14791, 14876,
       14962, 15049, 15136, 15223, 15311, 15399, 15488, 15578, 15668, 15758,
       15849, 15940, 16032, 16125, 16218, 16312, 16406, 16501, 16596, 16692,
       16788, 16885, 16982, 17080, 17179, 17278, 17378, 17478, 17579, 17681,
       17783, 17885, 17989, 18093, 18197, 18302, 18408, 18514, 18621, 18728,
       18836, 18945, 19055, 19165, 19275, 19387, 19498, 19611, 19724, 19838,
       19953, 20068, 20184, 20300, 20417, 20535, 20654, 20773, 20893, 21014,
       21135, 21257, 21380, 21503, 21627, 21752, 21878, 22004, 22131, 22259,
       22387, 22516, 22646, 22777, 22909, 23041, 23174, 23308, 23442, 23578,
       23714, 23851, 23988, 24127, 24266, 24406, 24547, 24689, 24831, 24975,
       25119 >>

\* 10 ** (diff / config.initialElo) as a fraction <<numerator, denominator>>;
\* a negative exponent is the reciprocal
Pow10(diff) ==
    IF diff >= 0 THEN <<Pow10Tab[diff + 1], Pow10Tab[1]>>
                 ELSE <<Pow10Tab[1], Pow10Tab[1 - diff]>>

\* 1 / (1 + p) for a fraction p
Expected(p) == <<p[2], p[2] + p[1]>>

Delta_sign(score, e) == <<k * (score * e[2] + e[1]), e[2]>>

\* config.k * (score - e) for a fraction e and a score 0 or 1
Delta(score, e) == <<k * (score * e[2] - e[1]), e[2]>>

\* what an 'integer' column keeps of a written number: the nearest integer
ToInteger(q) ==
    LET n == Abs(q[1])
        r == (2 * n + q[2]) \div (2 * q[2])
    IN  IF q[1] < 0 THEN -r ELSE r

\* index.ts:164-168, the caller's side
selfDeltaOf(selfElo, oppoElo, status) ==
    Delta(status, Expected(Pow10(oppoElo - selfElo)))

oppoDeltaOf_diff(selfElo, oppoElo, status) ==
    Delta(1 - status, Expected(Pow10(oppoElo - selfElo)))

\* index.ts:164-169, the opponent's side
oppoDeltaOf(selfElo, oppoElo, status) ==
    Delta(1 - status, Expected(Pow10(-(oppoElo - selfElo))))

\* Math.round of a stored (integer) rating
showElo(elo) == ToInteger(<<elo, 1>>)

----------------------------------------------------------------------------
(* Rows, locals and replies *)

NoRow == [reg |-> FALSE, name |-> <<>>, elo |-> 0]

NoReply ==
    [text |-> "", name |-> <<>>, elo |-> 0, uid |-> NoUser, status |-> -1,
     cmd |-> "", selfId |-> NoUser, arg |-> NoUser,
     quiet |-> FALSE, afterProposal |-> FALSE, retry |-> FALSE, declared |-> -1]

\* a slot with no handler in it.  fresh, rival, quiet and afterProposal are
\* history of an elo.update invocation:
\*   fresh          when it started no request between the two users was
\*                  stored and no database operation was in flight
\*   rival          fresh, and it overlapped a fresh invocation by the
\*                  opponent against the caller
\*   quiet          fresh, no other handler was in progress when it started
\*                  nor started while it ran, and a request of the opponent
\*                  against the caller had been accepted and removed before
\*   afterProposal  it started after a proposal of the caller against the
\*                  opponent had been answered, and the opponent has not
\*                  accepted since
\*   retry          it started while nothing was in progress, a create of a
\*                  request of the caller against the opponent had rejected,
\*                  no request between the two was ever stored, and no other
\*                  handler started while it ran
Idle ==
    [pc |-> "idle", cmd |-> "", selfId |-> NoUser, arg |-> NoUser, name |-> <<>>,
     win |-> FALSE, self |-> NoRow, oppo |-> NoRow, selfElo |-> 0, oppoElo |-> 0,
     pend |-> "", cid |-> 0,
     fresh |-> FALSE, rival |-> FALSE, quiet |-> FALSE, afterProposal |-> FALSE,
     retry |-> FALSE]

Free(c) == calls[c].pc = "idle"

\* a new invocation takes the lowest free slot
Lowest(c) == Free(c) /\ \A d \in Slot : Free(d) => c <= d

\* session.text(t) returned by the handler cl
Text(cl, t) ==
    [NoReply EXCEPT !.text = t, !.cmd = cl.cmd, !.selfId = cl.selfId, !.arg = cl.arg,
                    !.quiet = cl.quiet, !.afterProposal = cl.afterProposal,
                    !.retry = cl.retry]

\* ctx.database.get('w-elo-request', { src, dest })
FindRequests(src, dest) == { r \in requests : r.src = src /\ r.dest = dest }

\* the stored requests between two users, in either direction
Between(a, b) == FindRequests(a, b) \cup FindRequests(b, a)

Other(which) == IF which = "self" THEN "oppo" ELSE "self"

\* one of the two rows of Promise.all([get(selfId), get(oppoId)]) arrives
ReadRow(cl, which) ==
    IF which = "self" THEN [cl EXCEPT !.self = players[cl.selfId]]
                      ELSE [cl EXCEPT !.oppo = players[cl.arg]]

ReadElo(cl, which) ==
    IF which = "self" THEN [cl EXCEPT !.selfElo = players[cl.selfId].elo]
                      ELSE [cl EXCEPT !.oppoElo = players[cl.arg].elo]

\* the handler in slot c returns r
Return(c, r) == calls' = [calls EXCEPT ![c] = Idle] /\ reply' = r

\* the handler in slot c goes on as cl, up to its next await
Await(c, cl) == calls' = [calls EXCEPT ![c] = cl] /\ reply' = NoReply

store == <<players, requests, nextRid>>
flight == <<commits, creates>>
history == <<removed, applied, reapplied, open, bases>>
faulty == <<log, aborted, lost>>

----------------------------------------------------------------------------
(* elo.register <name:string> *)

\* index.ts:83-86: trim, get the caller's row
RegisterGet(c, u, raw) ==
    /\ Lowest(c)
    /\ LET cl   == [Idle EXCEPT !.cmd = "register", !.selfId = u]
           name == Trim(raw)
           self == players[u]
       IN  IF name = <<>> THEN Return(c, Text(cl, "elo-register-invalid-name"))
           ELSE IF self.reg
                THEN Return(c, [Text(cl, "elo-register-duplicate") EXCEPT !.name = self.name])
                ELSE Await(c, [cl EXCEPT !.pc = "r_create", !.name = name])
    /\ UNCHANGED <<store, flight, quota, history>>
    /\ UNCHANGED faulty

RegisterCreate_upsert(c) ==
    /\ calls[c].pc = "r_create"
    /\ LET cl == calls[c]
           u  == cl.selfId
       IN  /\ players' = [players EXCEPT
                  ![u] = [reg |-> TRUE, name |-> cl.name, elo |-> initialElo]]
           /\ Return(c, [Text(cl, "elo-register-ok") EXCEPT
                            !.name = cl.name, !.elo = initialElo])
    /\ UNCHANGED <<requests, nextRid, flight, quota, history>>
    /\ UNCHANGED faulty

\* index.ts:88-90: create the row; uid is the primary key, so a second row
\* for the same uid is refused and the awaited create throws
RegisterCreate(c) ==
    /\ calls[c].pc = "r_create"
    /\ LET cl == calls[c]
           u  == cl.selfId
       IN  IF players[u].reg
           THEN /\ Return(c, Text(cl, "error"))
                /\ UNCHANGED players
           ELSE /\ players' = [players EXCEPT
                       ![u] = [reg |-> TRUE, name |-> cl.name, elo |-> initialElo]]
                /\ Return(c, [Text(cl, "elo-register-ok") EXCEPT
                                 !.name = cl.name, !.elo = initialElo])
    /\ UNCHANGED <<requests, nextRid, flight, quota, history>>
    /\ UNCHANGED faulty

----------------------------------------------------------------------------
(* elo.check [user:user] *)

Check_self(u, userId) ==
    /\ LET cl   == [Idle EXCEPT !.cmd = "check", !.selfId = u, !.arg = userId]
           user == players[u]
       IN  reply' =
               IF ~user.reg
               THEN IF userId # NoUser
                    THEN [Text(cl, "elo-user-not-found") EXCEPT !.uid = userId]
                    ELSE Text(cl, "elo-need-register")
               ELSE [Text(cl, "elo-check") EXCEPT
                        !.name = user.name, !.elo = showElo(user.elo)]
    /\ UNCHANGED <<store, calls, flight, quota, history>>
    /\ UNCHANGED faulty

\* index.ts:96-102: one get, then the answer
Check(u, userId) ==
    /\ LET cl   == [Idle EXCEPT !.cmd = "check", !.selfId = u, !.arg = userId]
           user == players[IF userId # NoUser THEN userId ELSE u]
       IN  reply' =
               IF ~user.reg
               THEN IF userId # NoUser
                    THEN [Text(cl, "elo-user-not-found") EXCEPT !.uid = userId]
                    ELSE Text(cl, "elo-need-register")
               ELSE [Text(cl, "elo-check") EXCEPT
                        !.name = user.name, !.elo = showElo(user.elo)]
    /\ UNCHANGED <<store, calls, flight, quota, history>>
    /\ UNCHANGED faulty

----------------------------------------------------------------------------
(* elo.update <user:user> [-w | -l] *)

\* no request between a and b is stored and no database operation is in flight
Settled(a, b) == Between(a, b) = {} /\ commits = {} /\ creates = {}

\* a fresh invocation by b against a is in progress in slot d
Opposite(d, a, b) ==
    /\ calls[d].cmd = "update" /\ calls[d].fresh
    /\ calls[d].selfId = b /\ calls[d].arg = a

\* index.ts:110-115: the handler starts; the first of the two rows arrives
UpdateBegin(c, u, oppoId, win, first) ==
    /\ Lowest(c)
    /\ quota > 0
    /\ quota' = quota - 1
    /\ LET fresh == Settled(u, oppoId)
           cl == [Idle EXCEPT
                     !.pc = "u_players", !.cmd = "update", !.selfId = u, !.arg = oppoId,
                     !.win = win, !.cid = quota, !.pend = Other(first),
                     !.fresh = fresh,
                     !.rival = fresh /\ \E d \in Slot : Opposite(d, u, oppoId),
                     !.quiet = /\ fresh
                               /\ \A d \in Slot : Free(d)
                               /\ \E r \in removed : r.src = oppoId /\ r.dest = u,
                     !.afterProposal = (<<u, oppoId>> \in open),
                     !.retry = /\ fresh
                               /\ \A d \in Slot : Free(d)
                               /\ \E j \in lost : j.src = u /\ j.dest = oppoId
                               /\ \A r \in removed : {r.src, r.dest} # {u, oppoId}]
       IN  calls' = [d \in Slot |->
                       IF d = c THEN ReadRow(cl, first)
                       ELSE [calls[d] EXCEPT
                                !.quiet = FALSE, !.retry = FALSE,
                                !.rival = @ \/ (fresh /\ Opposite(d, u, oppoId))]]
    /\ reply' = NoReply
    /\ UNCHANGED <<store, flight, history>>
    /\ UNCHANGED faulty

UpdatePlayers_oppoFirst(c) ==
    /\ calls[c].pc = "u_players"
    /\ LET cl == ReadRow(calls[c], calls[c].pend)
       IN  IF ~cl.oppo.reg
           THEN Return(c, [Text(cl, "elo-user-not-found") EXCEPT !.uid = cl.arg])
           ELSE IF ~cl.self.reg THEN Return(c, Text(cl, "elo-need-register"))
                ELSE Await(c, [cl EXCEPT !.pc = "u_reverse", !.pend = ""])
    /\ UNCHANGED <<store, flight, quota, history>>
    /\ UNCHANGED faulty

\* index.ts:112-118: the second row arrives; both must exist
UpdatePlayers(c) ==
    /\ calls[c].pc = "u_players"
    /\ LET cl == ReadRow(calls[c], calls[c].pend)
       IN  IF ~cl.self.reg THEN Return(c, Text(cl, "elo-need-register"))
           ELSE IF ~cl.oppo.reg
                THEN Return(c, [Text(cl, "elo-user-not-found") EXCEPT !.uid = cl.arg])
                ELSE Await(c, [cl EXCEPT !.pc = "u_reverse", !.pend = ""])
    /\ UNCHANGED <<store, flight, quota, history>>
    /\ UNCHANGED faulty

CommitOf_unswapped(cl, req) ==
    [cid |-> cl.cid, rid |-> req.rid, selfId |-> cl.selfId, oppoId |-> cl.arg,
     selfDeltaElo |-> req.srcDeltaElo, oppoDeltaElo |-> req.destDeltaElo,
     selfNewElo |-> cl.self.elo + req.srcDeltaElo,
     oppoNewElo |-> cl.oppo.elo + req.destDeltaElo,
     selfSet |-> FALSE, oppoSet |-> FALSE,
     selfFailed |-> FALSE, oppoFailed |-> FALSE]

\* index.ts:128-136: the promise chain the accept branch starts and does not await
CommitOf(cl, req) ==
    [cid |-> cl.cid, rid |-> req.rid, selfId |-> cl.selfId, oppoId |-> cl.arg,
     selfDeltaElo |-> req.destDeltaElo, oppoDeltaElo |-> req.srcDeltaElo,
     selfNewElo |-> cl.self.elo + req.destDeltaElo,
     oppoNewElo |-> cl.oppo.elo + req.srcDeltaElo,
     selfSet |-> FALSE, oppoSet |-> FALSE,
     selfFailed |-> FALSE, oppoFailed |-> FALSE]

AcceptReply_declared(cl, req) ==
    [Text(cl, "elo-update-accept-ok") EXCEPT
        !.elo = showElo(cl.self.elo + req.destDeltaElo),
        !.status = IF cl.win THEN Win ELSE Lose,
        !.declared = IF cl.win THEN Win ELSE Lose]

\* index.ts:137-145 (declared is history: the caller's -w / -l option)
AcceptReply(cl, req) ==
    [Text(cl, "elo-update-accept-ok") EXCEPT
        !.elo = showElo(cl.self.elo + req.destDeltaElo), !.status = 1 - req.status,
        !.declared = IF cl.win THEN Win ELSE Lose]

\* index.ts:123-146: look for the opponent's request against the caller; if
\* there is one, accept it
UpdateReverse(c) ==
    /\ calls[c].pc = "u_reverse"
    /\ LET cl    == calls[c]
           found == FindRequests(cl.arg, cl.selfId)
       IN  IF found # {}
           THEN \E req \in found :
                /\ commits' = commits \cup {CommitOf(cl, req)}
                /\ calls' = [d \in Slot |->
                       IF d = c THEN Idle
                       ELSE IF calls[d].selfId = req.src /\ calls[d].arg = req.dest
                            THEN [calls[d] EXCEPT !.afterProposal = FALSE]
                            ELSE calls[d]]
                /\ reply' = AcceptReply(cl, req)
                /\ open' = open \ {<<req.src, req.dest>>}
           ELSE /\ Await(c, [cl EXCEPT !.pc = "u_forward"])
                /\ UNCHANGED <<commits, open>>
    /\ UNCHANGED <<store, creates, quota, removed, applied, reapplied, bases>>
    /\ UNCHANGED faulty

\* index.ts:148-155: look for the caller's own request against the opponent
UpdateForward(c) ==
    /\ calls[c].pc = "u_forward"
    /\ LET cl == calls[c]
       IN  IF FindRequests(cl.selfId, cl.arg) # {}
           THEN Return(c, Text(cl, "elo-update-request-duplicate"))
           ELSE Await(c, [cl EXCEPT !.pc = "u_elos"])
    /\ UNCHANGED <<store, flight, quota, history>>
    /\ UNCHANGED faulty

\* index.ts:157-163: the first of the two ratings arrives
UpdateElos(c, first) ==
    /\ calls[c].pc = "u_elos"
    /\ Await(c, [ReadElo(calls[c], first) EXCEPT !.pc = "u_elos2", !.pend = Other(first)])
    /\ UNCHANGED <<store, flight, quota, history>>
    /\ UNCHANGED faulty

CreateOf_swapped(cl) ==
    LET status == IF cl.win THEN Win ELSE Lose
    IN  [cid |-> cl.cid, src |-> cl.arg, dest |-> cl.selfId, status |-> status,
         srcDeltaElo  |-> selfDeltaOf(cl.selfElo, cl.oppoElo, status),
         destDeltaElo |-> oppoDeltaOf(cl.selfElo, cl.oppoElo, status),
         selfElo |-> cl.selfElo, oppoElo |-> cl.oppoElo, rival |-> cl.rival]

\* index.ts:164-177: the create call the proposal branch starts and does not
\* await (selfElo, oppoElo and rival are history)
CreateOf(cl) ==
    LET status == IF cl.win THEN Win ELSE Lose
    IN  [cid |-> cl.cid, src |-> cl.selfId, dest |-> cl.arg, status |-> status,
         srcDeltaElo  |-> selfDeltaOf(cl.selfElo, cl.oppoElo, status),
         destDeltaElo |-> oppoDeltaOf(cl.selfElo, cl.oppoElo, status),
         selfElo |-> cl.selfElo, oppoElo |-> cl.oppoElo, rival |-> cl.rival]

\* index.ts:157-184: the second rating arrives; compute the deltas, start the
\* create, answer
UpdatePropose(c) ==
    /\ calls[c].pc = "u_elos2"
    /\ LET cl == ReadElo(calls[c], calls[c].pend)
       IN  /\ creates' = creates \cup {CreateOf(cl)}
           /\ Return(c, [Text(cl, "elo-update-request-ok") EXCEPT
                            !.status = IF cl.win THEN Win ELSE Lose])
           /\ open' = open \cup {<<cl.selfId, cl.arg>>}
    /\ UNCHANGED <<store, commits, quota, removed, applied, reapplied, bases>>
    /\ UNCHANGED faulty

----------------------------------------------------------------------------
(* Database operations in flight *)

\* history of a rating write of a commit: did it move the rating by the delta
Credit(j, uid, delta, newElo) ==
    IF newElo - players[uid].elo = delta /\ delta # 0
    THEN IF <<j.rid, uid>> \in applied
         THEN reapplied' = reapplied \cup {<<j.rid, uid>>} /\ UNCHANGED applied
         ELSE applied' = applied \cup {<<j.rid, uid>>} /\ UNCHANGED reapplied
    ELSE UNCHANGED <<applied, reapplied>>

\* a set of the chain j has settled and left it as j2.  Promise.all rejects
\* with the first set that fails, so .then(remove) never runs for such a
\* chain: it is over once both of its sets have settled
Settle(j, j2) ==
    IF (j2.selfFailed \/ j2.oppoFailed) /\ (j2.selfSet \/ j2.selfFailed)
                                        /\ (j2.oppoSet \/ j2.oppoFailed)
    THEN commits' = commits \ {j} /\ aborted' = aborted \cup {j2}
    ELSE commits' = (commits \ {j}) \cup {j2} /\ UNCHANGED aborted

\* index.ts:136: .catch(err => ctx.logger.error('Update ELO error: %o', err))
UpdateError(j) == [msg |-> "Update ELO error", cid |-> j.cid]

\* index.ts:178: .catch(err => ctx.logger.error('Create ELO request error: %o', err))
CreateError(j) == [msg |-> "Create ELO request error", cid |-> j.cid]

\* index.ts:132: ctx.database.set('w-elo', selfId, { elo: selfNewElo })
ApplySetSelf ==
    \E j \in commits :
        /\ ~j.selfSet /\ ~j.selfFailed
        /\ players' = [players EXCEPT ![j.selfId].elo = j.selfNewElo]
        /\ Credit(j, j.selfId, j.selfDeltaElo, j.selfNewElo)
        /\ Settle(j, [j EXCEPT !.selfSet = TRUE])
        /\ reply' = NoReply
        /\ UNCHANGED <<requests, nextRid, calls, creates, quota, removed, open, bases>>
        /\ UNCHANGED <<log, lost>>

\* index.ts:133: ctx.database.set('w-elo', oppoId, { elo: oppoNewElo })
ApplySetOppo ==
    \E j \in commits :
        /\ ~j.oppoSet /\ ~j.oppoFailed
        /\ players' = [players EXCEPT ![j.oppoId].elo = j.oppoNewElo]
        /\ Credit(j, j.oppoId, j.oppoDeltaElo, j.oppoNewElo)
        /\ Settle(j, [j EXCEPT !.oppoSet = TRUE])
        /\ reply' = NoReply
        /\ UNCHANGED <<requests, nextRid, calls, creates, quota, removed, open, bases>>
        /\ UNCHANGED <<log, lost>>

ApplyRemove_keeps ==
    \E j \in commits :
        /\ j.selfSet /\ j.oppoSet
        /\ commits' = commits \ {j}
        /\ reply' = NoReply
        /\ UNCHANGED <<store, calls, creates, quota, history>>
        /\ UNCHANGED faulty

\* index.ts:135: once both sets are done, ctx.database.remove('w-elo-request', req.rid)
ApplyRemove ==
    \E j \in commits :
        /\ j.selfSet /\ j.oppoSet
        /\ requests' = { r \in requests : r.rid # j.rid }
        /\ removed' = removed \cup { r \in requests : r.rid = j.rid }
        /\ commits' = commits \ {j}
        /\ reply' = NoReply
        /\ UNCHANGED <<players, nextRid, calls, creates, quota, applied, reapplied, open, bases>>
        /\ UNCHANGED faulty

\* index.ts:62-74, 171-177: the row is stored under the next rid, its deltas
\* in 'integer' columns
ApplyCreate ==
    \E j \in creates :
        /\ requests' = requests \cup
               {[rid |-> nextRid, src |-> j.src, dest |-> j.dest, status |-> j.status,
                 srcDeltaElo |-> ToInteger(j.srcDeltaElo),
                 destDeltaElo |-> ToInteger(j.destDeltaElo)]}
        /\ nextRid' = nextRid + 1
        /\ bases' = bases \cup {[rid |-> nextRid, selfElo |-> j.selfElo,
                                 oppoElo |-> j.oppoElo, rival |-> j.rival]}
        /\ creates' = creates \ {j}
        /\ reply' = NoReply
        /\ UNCHANGED <<players, calls, commits, quota, removed, applied, reapplied, open>>
        /\ UNCHANGED faulty

----------------------------------------------------------------------------
(* Database operations that fail: the call rejects and the store is as it was *)

\* index.ts:132, 136: the set of the caller's rating rejects; the rejection
\* of Promise.all is caught and logged once
FailSetSelf ==
    \E j \in commits :
        /\ ~j.selfSet /\ ~j.selfFailed
        /\ Settle(j, [j EXCEPT !.selfFailed = TRUE])
        /\ log' = log \cup {UpdateError(j)}
        /\ reply' = NoReply
        /\ UNCHANGED <<store, calls, creates, quota, history, lost>>

\* index.ts:133, 136: the set of the opponent's rating rejects
FailSetOppo ==
    \E j \in commits :
        /\ ~j.oppoSet /\ ~j.oppoFailed
        /\ Settle(j, [j EXCEPT !.oppoFailed = TRUE])
        /\ log' = log \cup {UpdateError(j)}
        /\ reply' = NoReply
        /\ UNCHANGED <<store, calls, creates, quota, history, lost>>

FailRemove_rollback ==
    \E j \in commits :
        /\ j.selfSet /\ j.oppoSet
        /\ players' = [players EXCEPT ![j.selfId].elo = j.selfNewElo - j.selfDeltaElo,
                                      ![j.oppoId].elo = j.oppoNewElo - j.oppoDeltaElo]
        /\ commits' = commits \ {j}
        /\ aborted' = aborted \cup {j}
        /\ log' = log \cup {UpdateError(j)}
        /\ reply' = NoReply
        /\ UNCHANGED <<requests, nextRid, calls, creates, quota, history, lost>>

\* index.ts:135-136: both sets are done and the remove rejects
FailRemove ==
    \E j \in commits :
        /\ j.selfSet /\ j.oppoSet
        /\ commits' = commits \ {j}
        /\ aborted' = aborted \cup {j}
        /\ log' = log \cup {UpdateError(j)}
        /\ reply' = NoReply
        /\ UNCHANGED <<store, calls, creates, quota, history, lost>>

FailCreate_stored ==
    \E j \in creates :
        /\ requests' = requests \cup
               {[rid |-> nextRid, src |-> j.src, dest |-> j.dest, status |-> j.status,
                 srcDeltaElo |-> ToInteger(j.srcDeltaElo),
                 destDeltaElo |-> ToInteger(j.destDeltaElo)]}
        /\ creates' = creates \ {j}
        /\ lost' = lost \cup {j}
        /\ log' = log \cup {CreateError(j)}
        /\ reply' = NoReply
        /\ UNCHANGED <<players, nextRid, calls, commits, quota, history, aborted>>

\* index.ts:171-178: the create rejects
FailCreate ==
    \E j \in creates :
        /\ creates' = creates \ {j}
        /\ lost' = lost \cup {j}
        /\ log' = log \cup {CreateError(j)}
        /\ reply' = NoReply
        /\ UNCHANGED <<store, calls, commits, quota, history, aborted>>

----------------------------------------------------------------------------
(* Specifications *)

Empty ==
    /\ requests = {}
    /\ nextRid = 1
    /\ calls = [c \in Slot |-> Idle]
    /\ reply = NoReply
    /\ commits = {}
    /\ creates = {}
    /\ removed = {}
    /\ applied = {}
    /\ reapplied = {}
    /\ open = {}
    /\ bases = {}
    /\ log = {}
    /\ aborted = {}
    /\ lost = {}

\* after apply(ctx, config): both tables empty
Init ==
    /\ players = [u \in Uid |-> NoRow]
    /\ quota = MaxFreshUpdates
    /\ Empty

UpdateSteps ==
    \/ \E c \in Slot, u \in Uid, win \in BOOLEAN, first \in {"self", "oppo"} :
           \E oppoId \in Uid \ {u} : UpdateBegin(c, u, oppoId, win, first)
    \/ \E c \in Slot : UpdatePlayers(c)
    \/ \E c \in Slot : UpdateReverse(c)
    \/ \E c \in Slot : UpdateForward(c)
    \/ \E c \in Slot, first \in {"self", "oppo"} : UpdateElos(c, first)
    \/ \E c \in Slot : UpdatePropose(c)
    \/ ApplySetSelf
    \/ ApplySetOppo
    \/ ApplyRemove
    \/ ApplyCreate

Next ==
    \/ \E c \in Slot, u \in Uid, raw \in RawName : RegisterGet(c, u, raw)
    \/ \E c \in Slot : RegisterCreate(c)
    \/ UpdateSteps

Spec == Init /\ [][Next]_vars

\* A has registered as "a" and B as " b"
DuelPlayers ==
    [u \in Uid |-> [reg |-> TRUE, name |-> IF u = "A" THEN <<"a">> ELSE <<"b">>,
                    elo |-> initialElo]]

InitDuel ==
    /\ players = DuelPlayers
    /\ quota = MaxUpdates
    /\ Empty

SpecDuel == InitDuel /\ [][UpdateSteps]_vars

\* Spec reaches the state SpecDuel starts from (budget apart)
DuelStart ==
    /\ players = DuelPlayers /\ requests = {} /\ commits = {} /\ creates = {}
    /\ \A c \in Slot : Free(c)

\* the request A's `elo.update B -w` stores when both are rated initialElo
FirstRequest ==
    [rid |-> 1, src |-> "A", dest |-> "B", status |-> Win,
     srcDeltaElo  |-> ToInteger(selfDeltaOf(initialElo, initialElo, Win)),
     destDeltaElo |-> ToInteger(oppoDeltaOf(initialElo, initialElo, Win))]

\* both users registered, A's request against B stored, nothing in progress
Proposed ==
    /\ players = DuelPlayers
    /\ requests = {FirstRequest}
    /\ nextRid = 2
    /\ calls = [c \in Slot |-> Idle]
    /\ reply = NoReply
    /\ commits = {}
    /\ creates = {}
    /\ removed = {}
    /\ applied = {}
    /\ reapplied = {}
    /\ open = {<<"A", "B">>}
    /\ bases = {[rid |-> 1, selfElo |-> initialElo, oppoElo |-> initialElo,
                 rival |-> FALSE]}
    /\ log = {}
    /\ aborted = {}
    /\ lost = {}

\* all three commands, from the empty database and from the state Proposed
\* (which Spec reaches)
InitAll ==
    /\ quota = MaxAllUpdates
    /\ \/ players = [u \in Uid |-> NoRow] /\ Empty
       \/ Proposed

NextAll ==
    \/ \E u \in Uid, userId \in Uid \cup {NoUser} : Check(u, userId)
    \/ Next

SpecAll == InitAll /\ [][NextAll]_vars

\* elo.update with the caller as <user:user>
SelfBegin ==
    \E c \in Slot, u \in Uid, win \in BOOLEAN, first \in {"self", "oppo"} :
        UpdateBegin(c, u, u, win, first)

InitSelf ==
    /\ players = DuelPlayers
    /\ quota = MaxSelfUpdates
    /\ Empty

NextSelf ==
    \/ SelfBegin
    \/ UpdateSteps

\* both users registered; elo.update against the other user or oneself
SpecSelf == InitSelf /\ [][NextSelf]_vars

\* a third user
Uid3 == Uid \cup {"C"}

\* A, B and C have registered as "a", "b" and "c"
TrioPlayers ==
    [u \in Uid3 |-> [reg |-> TRUE,
                     name |-> IF u = "A" THEN <<"a">> ELSE IF u = "B" THEN <<"b">> ELSE <<"c">>,
                     elo |-> initialElo]]

\* the request A's `elo.update <dest> -w` stores under rid when both users
\* are rated initialElo
WinRequest(rid, dest) == [FirstRequest EXCEPT !.rid = rid, !.dest = dest]

\* the state after A's `elo.update B -w` and then A's `elo.update C -w`: both
\* requests stored, nothing in progress
InitTrio ==
    /\ players = TrioPlayers
    /\ quota = MaxTrioUpdates
    /\ requests = {WinRequest(1, "B"), WinRequest(2, "C")}
    /\ nextRid = 3
    /\ calls = [c \in Slot |-> Idle]
    /\ reply = NoReply
    /\ commits = {}
    /\ creates = {}
    /\ removed = {}
    /\ applied = {}
    /\ reapplied = {}
    /\ open = {<<"A", "B">>, <<"A", "C">>}
    /\ bases = {[rid |-> rid, selfElo |-> initialElo, oppoElo |-> initialElo,
                 rival |-> FALSE] : rid \in {1, 2}}
    /\ log = {}
    /\ aborted = {}
    /\ lost = {}

\* elo.update between A and B and between A and C, in both directions
TrioBegin ==
    \E c \in Slot, u \in Uid3, win \in BOOLEAN, first \in {"self", "oppo"} :
        \E oppoId \in Uid3 \ {u} :
            /\ "A" \in {u, oppoId}
            /\ UpdateBegin(c, u, oppoId, win, first)

NextTrio ==
    \/ TrioBegin
    \/ \E c \in Slot : UpdatePlayers(c)
    \/ \E c \in Slot : UpdateReverse(c)
    \/ \E c \in Slot : UpdateForward(c)
    \/ \E c \in Slot, first \in {"self", "oppo"} : UpdateElos(c, first)
    \/ \E c \in Slot : UpdatePropose(c)
    \/ ApplySetSelf
    \/ ApplySetOppo
    \/ ApplyRemove
    \/ ApplyCreate

\* three users registered, A has proposed against B and against C
SpecTrio == InitTrio /\ [][NextTrio]_vars

InitFaulty ==
    /\ players = DuelPlayers
    /\ quota = MaxFaultyUpdates
    /\ Empty

NextFaulty ==
    \/ UpdateSteps
    \/ FailSetSelf
    \/ FailSetOppo
    \/ FailRemove
    \/ FailCreate

\* both users registered; every database operation elo.update does not await
\* may reject
SpecFaulty == InitFaulty /\ [][NextFaulty]_vars

InitFair ==
    /\ players = DuelPlayers
    /\ quota = MaxFairUpdates
    /\ Empty

\* every database operation that was issued and not awaited completes
Completion ==
    /\ WF_vars(ApplySetSelf)
    /\ WF_vars(ApplySetOppo)
    /\ WF_vars(ApplyRemove)
    /\ WF_vars(ApplyCreate)

\* both users registered; no database operation fails and each one completes
SpecFair == InitFair /\ [][UpdateSteps]_vars /\ Completion

----------------------------------------------------------------------------
(* Claims *)

BaseOf(rid) == CHOOSE b \in bases : b.rid = rid

\* the step is a database read by a command handler
HandlerStep == calls' # calls

\* some accept has written one rating and not the other, or both ratings
\* while the request it accepted is still stored
Halfway ==
    \E j \in commits :
        \/ j.selfSet # j.oppoSet
        \/ j.selfSet /\ j.oppoSet /\ \E r \in requests : r.rid = j.rid

\* C1: for every pair of users at most one request between them is stored,
\* in either direction.
C1_OnePendingPerPair ==
    \A a, b \in Uid : Cardinality(Between(a, b)) <= 1

\* C2: the deltas of one request move a player's rating at most once.
C2_DeltasAppliedOnce == reapplied = {}

C4_SecondProposalDuplicate ==
    reply.afterProposal => reply.text = "elo-update-request-duplicate"

\* C5: of two overlapping proposals in opposite directions, made while no
\* request between the two users is pending, at most one is stored.
C5_OppositeProposalsOneStored ==
    ~ \E r1, r2 \in requests :
          /\ r1.src = r2.dest /\ r1.dest = r2.src
          /\ BaseOf(r1.rid).rival /\ BaseOf(r2.rid).rival

\* C6: no handler reads the database while an accept is halfway.
C6_CommitAtomic == [][HandlerStep => ~Halfway]_vars

\* C7: an accept by C of a request of O against C writes C's rating as the
\* rating it read for C plus the stored destDeltaElo, and O's rating as the
\* rating it read for O plus the stored srcDeltaElo; the stored deltas are
\* the ones computed from the ratings at proposal time.
C7_AcceptStep ==
    \A c \in Slot :
        (calls[c].pc = "u_reverse" /\ calls'[c].pc = "idle") =>
            \E j \in commits' \ commits, r \in requests :
                /\ r.rid = j.rid /\ r.dest = calls[c].selfId /\ r.src = calls[c].arg
                /\ j.selfId = r.dest /\ j.oppoId = r.src
                /\ j.selfNewElo = calls[c].self.elo + r.destDeltaElo
                /\ j.oppoNewElo = calls[c].oppo.elo + r.srcDeltaElo

C7_WriteStep ==
    \A j \in commits :
        /\ (j \notin commits' /\ [j EXCEPT !.selfSet = TRUE] \in commits' /\ ~j.selfSet)
               => players'[j.selfId].elo = j.selfNewElo
        /\ (j \notin commits' /\ [j EXCEPT !.oppoSet = TRUE] \in commits' /\ ~j.oppoSet)
               => players'[j.oppoId].elo = j.oppoNewElo

C7_StoredDeltas ==
    \A r \in requests \cup removed :
        LET b == BaseOf(r.rid)
        IN  /\ r.srcDeltaElo  = ToInteger(selfDeltaOf(b.selfElo, b.oppoElo, r.status))
            /\ r.destDeltaElo = ToInteger(oppoDeltaOf(b.selfElo, b.oppoElo, r.status))

C7_AcceptUsesStoredDeltas ==
    /\ [][C7_AcceptStep /\ C7_WriteStep]_vars
    /\ []C7_StoredDeltas

\* an accept has written both ratings, and the challenger's rating it read
\* differs from the one the deltas were computed from
C7_Witness ==
    \E j \in commits :
        /\ j.selfSet /\ j.oppoSet
        /\ j.oppoNewElo - j.oppoDeltaElo # BaseOf(j.rid).selfElo
        /\ players[j.oppoId].elo = j.oppoNewElo

\* C8: the two deltas of every proposal sum to zero, so the two ratings an
\* accept writes sum to what the ratings it read sum to, and after one
\* proposal and its accept the two ratings sum to what they did before.
OneDuel ==
    /\ quota = MaxUpdates - 2
    /\ \A c \in Slot : Free(c)
    /\ commits = {} /\ creates = {}
    /\ removed # {}

C8_ZeroSum ==
    /\ \A r \in requests \cup removed : r.srcDeltaElo + r.destDeltaElo = 0
    /\ \A j \in creates : ToInteger(j.srcDeltaElo) + ToInteger(j.destDeltaElo) = 0
    /\ \A j \in commits : j.selfDeltaElo + j.oppoDeltaElo = 0
    /\ OneDuel => \A r \in removed :
           players[r.src].elo + players[r.dest].elo = 2 * initialElo

\* a request has been accepted and removed, and a request computed from
\* unequal ratings is stored
C8_Witness ==
    /\ removed # {}
    /\ \E r \in requests :
           /\ BaseOf(r.rid).selfElo # BaseOf(r.rid).oppoElo
           /\ r.srcDeltaElo # 0

\* C9: a Win proposal between two users rated 400 stores the deltas +16 and
\* -16; after the opponent's accept of it the challenger is rated 416, the
\* opponent 384 and no request between them is stored.
C9_EndToEnd ==
    /\ \A j \in creates :
           (j.selfElo = 400 /\ j.oppoElo = 400 /\ j.status = Win) =>
               ToInteger(j.srcDeltaElo) = 16 /\ ToInteger(j.destDeltaElo) = -16
    /\ \A r \in requests \cup removed :
           (BaseOf(r.rid).selfElo = 400 /\ BaseOf(r.rid).oppoElo = 400 /\ r.status = Win) =>
               r.srcDeltaElo = 16 /\ r.destDeltaElo = -16
    /\ OneDuel => \A r \in removed :
           r.status = Win =>
               /\ players[r.src].elo = 416
               /\ players[r.dest].elo = 384
               /\ Between(r.src, r.dest) = {}

C9_Witness == OneDuel /\ \E r \in removed : r.status = Win

\* C10: a register by a user who has a row answers register-duplicate with
\* the stored name (a blank name apart, which is refused first).
C10_ReRegisterAnswersDuplicate ==
    (/\ reply.cmd = "register"
     /\ reply.text \notin {"elo-register-ok", "elo-register-invalid-name"})
        => /\ reply.text = "elo-register-duplicate"
           /\ reply.name = players[reply.selfId].name

\* the rows the handler in slot c has once both gets of index.ts:112-115 are
\* answered, the second one in this step
RowsOf(c) == ReadRow(calls[c], calls[c].pend)

\* the handler in slot c takes the step of index.ts:112-121
PlayersStep(c) == calls[c].pc = "u_players" /\ calls'[c].pc # "u_players"

\* C11: an elo.update whose caller has no row answers need-register, and one
\* whose caller has a row and whose opponent has none answers user-not-found
\* with the opponent's id; in both cases no request is created or removed and
\* no rating changes.
C11_Step ==
    \A c \in Slot : PlayersStep(c) =>
        LET cl == RowsOf(c)
        IN  /\ ~cl.self.reg =>
                   /\ reply' = Text(cl, "elo-need-register")
                   /\ calls'[c] = Idle
                   /\ UNCHANGED <<store, flight>>
            /\ (cl.self.reg /\ ~cl.oppo.reg) =>
                   /\ reply' = [Text(cl, "elo-user-not-found") EXCEPT !.uid = cl.arg]
                   /\ calls'[c] = Idle
                   /\ UNCHANGED <<store, flight>>

C11_Answer ==
    reply.cmd = "update" =>
        /\ ~players[reply.selfId].reg => reply.text = "elo-need-register"
        /\ ~players[reply.arg].reg =>
               \/ reply.text = "elo-need-register"
               \/ reply.text = "elo-user-not-found" /\ reply.uid = reply.arg

C11_MissingPlayer == [][C11_Step]_vars /\ []C11_Answer

\* a registered caller was answered user-not-found
C11_Witness ==
    /\ reply.cmd = "update" /\ reply.text = "elo-user-not-found"
    /\ players[reply.selfId].reg /\ ~players[reply.arg].reg

\* a rating write of an accept takes effect on u in this step
CommitWrites(u) ==
    \E j \in commits :
        \/ j.selfId = u /\ ~j.selfSet /\ ~j.selfFailed /\ players'[u].elo = j.selfNewElo
        \/ j.oppoId = u /\ ~j.oppoSet /\ ~j.oppoFailed /\ players'[u].elo = j.oppoNewElo

\* C12: a user's row, once created, keeps its name for ever, and its rating
\* changes only in a step in which a rating write of an accept takes effect;
\* no step of a command handler (register, check, proposal, duplicate,
\* refused update, and the accept's own answer) changes a rating.
C12_Step ==
    /\ \A u \in Uid : players[u].reg =>
           /\ players'[u].reg
           /\ players'[u].name = players[u].name
           /\ players'[u].elo # players[u].elo => CommitWrites(u)
    /\ (calls' # calls \/ reply' # NoReply) =>
           \A u \in Uid : players[u].reg => players'[u] = players[u]

C12_RatingFrame == [][C12_Step]_vars

\* a register was answered after a rating had moved, and did not reset it
C12_Witness ==
    /\ reply.cmd = "register" /\ reply.text = "elo-register-duplicate"
    /\ players[reply.selfId].elo # initialElo

\* C14: elo.check with a target that has no row answers user-not-found with
\* the target's id; without a target, by a caller who has no row, it answers
\* need-register; otherwise it answers the stored name and rating of the
\* target, or of the caller when no target is given; it changes neither table.
C14_Answer ==
    reply.cmd = "check" =>
        LET explicit == reply.arg # NoUser
            user     == players[IF explicit THEN reply.arg ELSE reply.selfId]
        IN  /\ (~user.reg /\ explicit) =>
                   reply.text = "elo-user-not-found" /\ reply.uid = reply.arg
            /\ (~user.reg /\ ~explicit) => reply.text = "elo-need-register"
            /\ user.reg =>
                   /\ reply.text = "elo-check"
                   /\ reply.name = user.name
                   /\ reply.elo = user.elo

C14_Step == reply'.cmd = "check" => UNCHANGED <<store, flight>>

C14_Inspect == []C14_Answer /\ [][C14_Step]_vars

\* a check of another user was answered with a rating an accept had written
C14_Witness ==
    /\ reply.cmd = "check" /\ reply.text = "elo-check"
    /\ reply.arg # NoUser /\ reply.arg # reply.selfId
    /\ reply.elo # initialElo

\* C13: every stored request has src different from dest, and no accept
\* writes the ratings of a user as both caller and opponent: an elo.update
\* of a user against themselves creates no request and changes no rating.
C13_DistinctParties ==
    /\ \A r \in requests : r.src # r.dest
    /\ \A j \in commits : j.selfId # j.oppoId

\* the delta the request r holds for the user p
DeltaFor(r, p) == IF r.src = p THEN r.srcDeltaElo ELSE r.destDeltaElo

\* C15: when a user is a party of two requests with two different users and
\* both have been accepted and the accepts have completed, that user's rating
\* is the rating before them plus the user's delta of each request.
C15_NoLostUpdate ==
    \A r1, r2 \in removed :
        (/\ r1.rid # r2.rid
         /\ commits = {} /\ creates = {} /\ \A c \in Slot : Free(c)
         /\ requests = {} /\ quota = 0)
            => players["A"].elo = initialElo + DeltaFor(r1, "A") + DeltaFor(r2, "A")

\* C16: if a rating write of an accept fails, that accept has changed
\* neither rating (and it does not remove the request).
C16_FailedAcceptChangesNothing ==
    \A j \in commits \cup aborted :
        (j.selfFailed \/ j.oppoFailed) => ~j.selfSet /\ ~j.oppoSet

\* a handler starts the promise chain or the create j in this step
Starts(j, jobs) == \A i \in jobs : i.cid # j.cid

\* C17: when the remove of an accept fails after both of its rating writes
\* were applied, the step changes no rating (nothing is rolled back), the
\* failure is logged, and the caller had been answered accept-ok when the
\* accept started its writes.
C17_Step ==
    /\ \A j \in commits :
           (j.selfSet /\ j.oppoSet /\ j \in aborted' /\ j \notin aborted) =>
               /\ UNCHANGED store
               /\ UpdateError(j) \in log'
    /\ \A j \in commits' :
           Starts(j, commits) =>
               reply'.text = "elo-update-accept-ok" /\ reply'.selfId = j.selfId

C17_Logged == \A j \in aborted : UpdateError(j) \in log

C17_RemoveFails == [][C17_Step]_vars /\ []C17_Logged

\* the remove of an accept has failed; both ratings are the ones it wrote and
\* the request is still stored
C17_Witness ==
    \E j \in aborted :
        /\ j.selfSet /\ j.oppoSet
        /\ players[j.selfId].elo = j.selfNewElo /\ j.selfDeltaElo # 0
        /\ players[j.oppoId].elo = j.oppoNewElo
        /\ \E r \in requests : r.rid = j.rid
        /\ UpdateError(j) \in log

\* C18: when the create of a proposal fails, the caller had been answered
\* request-ok, the step stores no request and changes no rating, and the
\* failure is logged; a later identical call of the same caller, made while
\* nothing else is in progress and no request between the two users was ever
\* stored, is a new proposal: it answers request-ok and starts a create.
C18_Step ==
    /\ \A j \in creates :
           (j \in lost' /\ j \notin lost) =>
               /\ UNCHANGED store
               /\ CreateError(j) \in log'
    /\ \A j \in creates' :
           Starts(j, creates) =>
               reply'.text = "elo-update-request-ok" /\ reply'.selfId = j.src

C18_Retry ==
    reply.retry =>
        /\ reply.text = "elo-update-request-ok"
        /\ \E j \in creates : j.src = reply.selfId /\ j.dest = reply.arg
        /\ Between(reply.selfId, reply.arg) = {}
        /\ players[reply.selfId].elo = initialElo
        /\ players[reply.arg].elo = initialElo

C18_CreateFails == [][C18_Step]_vars /\ []C18_Retry

\* the caller's second call, after the create of the first was lost, was
\* answered request-ok
C18_Witness ==
    /\ reply.retry
    /\ reply.text = "elo-update-request-ok"
    /\ \E j \in lost : j.src = reply.selfId /\ j.dest = reply.arg

\* the promise chain of the accept started by invocation i is in flight
Confirming(i) == \E j \in commits : j.cid = i

\* C19: with no failing database operation and every issued operation
\* completing, every accept is eventually over, and it is over only once
\* both ratings were written as the rating read plus the stored delta and
\* the request is no longer stored; when no other accept wrote a rating the
\* two ratings are then the ratings at the proposal plus the stored deltas;
\* and a request leaves the table only with the remove of an accept run by
\* its dest against its src.
C19_Step ==
    /\ \A j \in commits :
           (\A i \in commits' : i.cid # j.cid) =>
               /\ j.selfSet /\ j.oppoSet
               /\ \A r \in requests' : r.rid # j.rid
    /\ \A j \in commits :
           /\ (~j.selfSet /\ [j EXCEPT !.selfSet = TRUE] \in commits') =>
                  players'[j.selfId].elo = j.selfNewElo
           /\ (~j.oppoSet /\ [j EXCEPT !.oppoSet = TRUE] \in commits') =>
                  players'[j.oppoId].elo = j.oppoNewElo
    /\ \A r \in requests \ requests' :
           \E j \in commits \ commits' :
               /\ j.rid = r.rid /\ j.selfId = r.dest /\ j.oppoId = r.src
               /\ j.selfSet /\ j.oppoSet
               /\ j.selfDeltaElo = r.destDeltaElo /\ j.oppoDeltaElo = r.srcDeltaElo

C19_Final ==
    \A r \in removed :
        (commits = {} /\ reapplied = {} /\ removed = {r}) =>
            /\ players[r.src].elo = BaseOf(r.rid).selfElo + r.srcDeltaElo
            /\ players[r.dest].elo = BaseOf(r.rid).oppoElo + r.destDeltaElo
            /\ r \notin requests

C19_Live == \A i \in 1..MaxFairUpdates : Confirming(i) ~> ~Confirming(i)

C19_ConfirmationCompletes == [][C19_Step]_vars /\ []C19_Final /\ C19_Live

\* an accept is over: the request is removed and both ratings carry its deltas
C19_Witness ==
    /\ commits = {}
    /\ \E r \in removed :
           /\ r \notin requests
           /\ players[r.src].elo = initialElo + r.srcDeltaElo
           /\ players[r.dest].elo = initialElo + r.destDeltaElo

\* the handler in slot c takes the step of index.ts:123-146
ReverseStep(c) == calls[c].pc = "u_reverse" /\ calls'[c].pc # "u_reverse"

\* C20: when a request of O against C is stored at the lookup of C's
\* elo.update against O, the call accepts it whatever outcome C declares:
\* the ratings it writes are the ratings it read plus the stored deltas, it
\* creates no request, and the status it answers is the stored one inverted.
C20_Step ==
    \A c \in Slot :
        (ReverseStep(c) /\ FindRequests(calls[c].arg, calls[c].selfId) # {}) =>
            \E req \in FindRequests(calls[c].arg, calls[c].selfId) :
                /\ reply'.text = "elo-update-accept-ok"
                /\ reply'.selfId = calls[c].selfId
                /\ reply'.status = 1 - req.status
                /\ \E j \in commits' :
                       /\ Starts(j, commits)
                       /\ j.rid = req.rid
                       /\ j.selfNewElo = calls[c].self.elo + req.destDeltaElo
                       /\ j.oppoNewElo = calls[c].oppo.elo + req.srcDeltaElo
                /\ calls'[c] = Idle
                /\ UNCHANGED <<store, creates>>

C20_AcceptIgnoresDeclared == [][C20_Step]_vars

\* the caller declared a win, as the stored request does, and was answered
\* a loss
C20_Witness ==
    /\ reply.text = "elo-update-accept-ok"
    /\ reply.declared = Win
    /\ reply.status = Lose

====
